---- MODULE Spec2Model ----
(***************************************************************************)
(* Model of the subnet crate: IPAddress and SubnetMask (src/types.rs) with *)
(* the constants of src/constants.rs.                                      *)
(*                                                                         *)
(* A string is a sequence of one-character strings, so that splitting,     *)
(* integer parsing and decimal formatting are computed character by        *)
(* character.  A u8 is an integer in 0..255.  The usize accumulator of     *)
(* from_cidr is a bit vector, modelled as the set of its set bit indices.  *)
(***************************************************************************)
EXTENDS Integers, Sequences, FiniteSets

VARIABLES text, ip, res

vars == <<text, ip, res>>

(***************************************************************************)
(* constants.rs                                                            *)
(***************************************************************************)
UNDEF_CIDR == 250

MAX_CIDR == 32

U8 == 0 .. 255

\* Width of the usize accumulator of from_cidr on the narrowest target the
\* crate builds for (its 0xFF000000 literal needs 32 bits); wider targets
\* only move the shift overflow further away.
UsizeBits == 32

(***************************************************************************)
(* Bounds of the checked input space.                                      *)
(***************************************************************************)
\* Largest number of separator-delimited tokens of an input text.
MaxTokens == 6

(***************************************************************************)
(* Characters and strings                                                  *)
(***************************************************************************)
Digits == <<"0", "1", "2", "3", "4", "5", "6", "7", "8", "9">>

IsDigit(c) == \E d \in 1 .. 10 : Digits[d] = c

DigitVal(c) == (CHOOSE d \in 1 .. 10 : Digits[d] = c) - 1

\* Result<T, E> values.
Ok(v) == [tag |-> "Ok", val |-> v]

Err(e) == [tag |-> "Err", err |-> e]

\* An index out of bounds or an arithmetic overflow check: the thread panics.
Panic == [tag |-> "Panic"]

IsOk(r) == r.tag = "Ok"

IsErr(r) == r.tag = "Err"

(***************************************************************************)
(* str::parse::<u8>(): an optional leading '+', then one or more decimal   *)
(* digits, accumulated with overflow checks.  A '-' is not a sign for an   *)
(* unsigned type, and a sign alone is not a number.                        *)
(***************************************************************************)
RECURSIVE parse_digits(_, _, _)
parse_digits(s, i, acc) ==
    IF i > Len(s) THEN Ok(acc)
    ELSE IF ~IsDigit(s[i]) THEN Err("InvalidDigit")
    ELSE IF acc * 10 + DigitVal(s[i]) > 255 THEN Err("PosOverflow")
    ELSE parse_digits(s, i + 1, acc * 10 + DigitVal(s[i]))

parse_u8(s) ==
    IF Len(s) = 0 THEN Err("Empty")
    ELSE IF Len(s) = 1 /\ s[1] \in {"+", "-"} THEN Err("InvalidDigit")
    ELSE IF s[1] = "+" THEN parse_digits(s, 2, 0)
    ELSE parse_digits(s, 1, 0)

\* Mutant of fmt_u8: a width of three, zero-filled ({:03}).
fmt_u8_padded(n) ==
    <<Digits[(n \div 100) + 1], Digits[((n \div 10) % 10) + 1], Digits[(n % 10) + 1]>>

(***************************************************************************)
(* Display for u8 (the {} of format!): base 10, no padding.                *)
(***************************************************************************)
RECURSIVE fmt_u8(_)
fmt_u8(n) ==
    IF n < 10 THEN <<Digits[n + 1]>>
    ELSE fmt_u8(n \div 10) \o <<Digits[(n % 10) + 1]>>

(***************************************************************************)
(* str::split(pattern): the substrings between the separators, in order,   *)
(* empty ones included; a string without separator is its only chunk.      *)
(***************************************************************************)
RECURSIVE split_from(_, _, _, _)
split_from(s, SEP, i, cur) ==
    IF i > Len(s) THEN <<cur>>
    ELSE IF s[i] \in SEP THEN <<cur>> \o split_from(s, SEP, i + 1, <<>>)
    ELSE split_from(s, SEP, i + 1, Append(cur, s[i]))

split(s, SEP) == split_from(s, SEP, 1, <<>>)

(***************************************************************************)
(* Bit arithmetic on u8 and on the usize bit vector                        *)
(***************************************************************************)
RECURSIVE Pow2(_)
Pow2(n) == IF n = 0 THEN 1 ELSE 2 * Pow2(n - 1)

\* Mutant of BitAnd: |= in place of &=.
RECURSIVE BitOr(_, _, _)
BitOr(a, b, width) ==
    IF width = 0 THEN 0
    ELSE 2 * BitOr(a \div 2, b \div 2, width - 1) + (IF (a % 2) + (b % 2) > 0 THEN 1 ELSE 0)

\* a & b on u8 values (the &= of calculate_subnet).
RECURSIVE BitAnd(_, _, _)
BitAnd(a, b, width) ==
    IF width = 0 THEN 0
    ELSE 2 * BitAnd(a \div 2, b \div 2, width - 1) + ((a % 2) * (b % 2))

\* ((bits & (0xFF << shift)) >> shift) as u8, for bits given by its set bits.
RECURSIVE ByteAt(_, _, _)
ByteAt(bits, shift, j) ==
    IF j = 8 THEN 0
    ELSE (IF (shift + j) \in bits THEN Pow2(j) ELSE 0) + ByteAt(bits, shift, j + 1)

(***************************************************************************)
(* Error values (custom_error! ParseError and NetmaskError)                *)
(***************************************************************************)
GenericError(position, value) ==
    [kind |-> "GenericError", position |-> position, value |-> value]

ParseMaxCidrExceeded(value) == [kind |-> "ParseError::MaxCidrExceeded", value |-> value]

UndefinedCidr == [kind |-> "UndefinedCidr"]

NetmaskMaxCidrExceeded(value) == [kind |-> "NetmaskError::MaxCidrExceeded", value |-> value]

(***************************************************************************)
(* IPAddress                                                               *)
(***************************************************************************)
IPAddress_new(b0, b1, b2, b3, cidr) ==
    [b0 |-> b0, b1 |-> b1, b2 |-> b2, b3 |-> b3, cidr |-> cidr]

IPAddress_new_without_cidr(b0, b1, b2, b3) == IPAddress_new(b0, b1, b2, b3, UNDEF_CIDR)

\* chunks[i] of the code (0-based) is chunks[i + 1] here; an index past the
\* end of the Vec panics.
InBounds(chunks, i) == i + 1 <= Len(chunks)

\* Mutant of IPAddress_parse_cidr: the bound on the CIDR value is not checked.
IPAddress_parse_cidr_unchecked(chunks, b0, b1, b2, b3) ==
    IF Len(chunks) >= 5
    THEN LET v_cidr == parse_u8(chunks[5])
         IN  IF IsErr(v_cidr)
             THEN Err(GenericError("CIDR value", chunks[5]))
             ELSE Ok(IPAddress_new(b0, b1, b2, b3, v_cidr.val))
    ELSE Ok(IPAddress_new(b0, b1, b2, b3, UNDEF_CIDR))

\* Mutant of IPAddress_parse_cidr: the CIDR value is read only from a text of
\* exactly five chunks (== 5 in place of >= 5).
IPAddress_parse_cidr_exact(chunks, b0, b1, b2, b3) ==
    IF Len(chunks) = 5
    THEN LET v_cidr == parse_u8(chunks[5])
         IN  IF IsErr(v_cidr)
             THEN Err(GenericError("CIDR value", chunks[5]))
             ELSE IF v_cidr.val > MAX_CIDR
             THEN Err(ParseMaxCidrExceeded(v_cidr.val))
             ELSE Ok(IPAddress_new(b0, b1, b2, b3, v_cidr.val))
    ELSE Ok(IPAddress_new(b0, b1, b2, b3, UNDEF_CIDR))

\* The CIDR part of from_string, reached once the four bytes parsed.
IPAddress_parse_cidr(chunks, b0, b1, b2, b3) ==
    IF Len(chunks) >= 5
    THEN LET v_cidr == parse_u8(chunks[5])
         IN  IF IsErr(v_cidr)
             THEN Err(GenericError("CIDR value", chunks[5]))
             ELSE IF v_cidr.val > MAX_CIDR
             THEN Err(ParseMaxCidrExceeded(v_cidr.val))
             ELSE Ok(IPAddress_new(b0, b1, b2, b3, v_cidr.val))
    ELSE Ok(IPAddress_new(b0, b1, b2, b3, UNDEF_CIDR))

\* Mutant of IPAddress_from_string: the bytes are checked from the last to the
\* first, so the last failure is the one reported.
IPAddress_from_string_last_first(ip_address) ==
    LET chunks == split(ip_address, {".", "/"})
    IN  IF ~InBounds(chunks, 3) THEN Panic
        ELSE IF IsErr(parse_u8(chunks[4])) THEN Err(GenericError("byte 3", chunks[4]))
        ELSE IF IsErr(parse_u8(chunks[3])) THEN Err(GenericError("byte 2", chunks[3]))
        ELSE IF IsErr(parse_u8(chunks[2])) THEN Err(GenericError("byte 1", chunks[2]))
        ELSE IF IsErr(parse_u8(chunks[1])) THEN Err(GenericError("byte 0", chunks[1]))
        ELSE IPAddress_parse_cidr(chunks, parse_u8(chunks[1]).val, parse_u8(chunks[2]).val,
                                  parse_u8(chunks[3]).val, parse_u8(chunks[4]).val)

IPAddress_from_string(ip_address) ==
    LET chunks == split(ip_address, {".", "/"})
    IN  IF ~InBounds(chunks, 0) THEN Panic
        ELSE IF IsErr(parse_u8(chunks[1])) THEN Err(GenericError("byte 0", chunks[1]))
        ELSE IF ~InBounds(chunks, 1) THEN Panic
        ELSE IF IsErr(parse_u8(chunks[2])) THEN Err(GenericError("byte 1", chunks[2]))
        ELSE IF ~InBounds(chunks, 2) THEN Panic
        ELSE IF IsErr(parse_u8(chunks[3])) THEN Err(GenericError("byte 2", chunks[3]))
        ELSE IF ~InBounds(chunks, 3) THEN Panic
        ELSE IF IsErr(parse_u8(chunks[4])) THEN Err(GenericError("byte 3", chunks[4]))
        ELSE IPAddress_parse_cidr(chunks, parse_u8(chunks[1]).val, parse_u8(chunks[2]).val,
                                  parse_u8(chunks[3]).val, parse_u8(chunks[4]).val)

IPAddress_from_str(ip_address) == IPAddress_from_string(ip_address)

\* Mutant of IPAddress_to_string: the CIDR value is written only when it is a
\* valid one.
IPAddress_to_string_valid_cidr(self) ==
    IF self.cidr <= MAX_CIDR
    THEN fmt_u8(self.b0) \o <<".">> \o fmt_u8(self.b1) \o <<".">> \o fmt_u8(self.b2)
             \o <<".">> \o fmt_u8(self.b3) \o <<"/">> \o fmt_u8(self.cidr)
    ELSE fmt_u8(self.b0) \o <<".">> \o fmt_u8(self.b1) \o <<".">> \o fmt_u8(self.b2)
             \o <<".">> \o fmt_u8(self.b3)

IPAddress_to_string(self) ==
    IF self.cidr # UNDEF_CIDR
    THEN fmt_u8(self.b0) \o <<".">> \o fmt_u8(self.b1) \o <<".">> \o fmt_u8(self.b2)
             \o <<".">> \o fmt_u8(self.b3) \o <<"/">> \o fmt_u8(self.cidr)
    ELSE fmt_u8(self.b0) \o <<".">> \o fmt_u8(self.b1) \o <<".">> \o fmt_u8(self.b2)
             \o <<".">> \o fmt_u8(self.b3)

(***************************************************************************)
(* SubnetMask                                                              *)
(***************************************************************************)
SubnetMask_new(b0, b1, b2, b3) == [b0 |-> b0, b1 |-> b1, b2 |-> b2, b3 |-> b3]

\* Mutant of ShiftRange: the loop runs over 0 .. cidr and sets the low bits.
ShiftRange_low(cidr) == 0 .. (cidr - 1)

\* The shift amounts of the loop: MAX_CIDR - cidr .. MAX_CIDR (end excluded).
ShiftRange(cidr) == (MAX_CIDR - cidr) .. (MAX_CIDR - 1)

\* bits after the loop: bit i is set for every i of the range.
MaskBits(cidr) == {i \in 0 .. (UsizeBits - 1) : i \in ShiftRange(cidr)}

\* Mutant of SubnetMask_from_cidr: the bound is checked before the sentinel.
SubnetMask_from_cidr_bound_first(cidr) ==
    IF cidr > MAX_CIDR THEN Err(NetmaskMaxCidrExceeded(cidr))
    ELSE IF cidr = UNDEF_CIDR THEN Err(UndefinedCidr)
    ELSE LET bits == MaskBits(cidr)
         IN  Ok(SubnetMask_new(ByteAt(bits, 24, 0), ByteAt(bits, 16, 0),
                               ByteAt(bits, 8, 0), ByteAt(bits, 0, 0)))

SubnetMask_from_cidr(cidr) ==
    IF cidr = UNDEF_CIDR THEN Err(UndefinedCidr)
    ELSE IF cidr > MAX_CIDR THEN Err(NetmaskMaxCidrExceeded(cidr))
    ELSE IF MAX_CIDR - cidr < 0 THEN Panic
    ELSE IF \E i \in ShiftRange(cidr) : i >= UsizeBits THEN Panic
    ELSE LET bits == MaskBits(cidr)
         IN  Ok(SubnetMask_new(ByteAt(bits, 24, 0), ByteAt(bits, 16, 0),
                               ByteAt(bits, 8, 0), ByteAt(bits, 0, 0)))

SubnetMask_from_string(netmask) ==
    LET chunks == split(netmask, {"."})
    IN  IF ~InBounds(chunks, 0) THEN Panic
        ELSE IF IsErr(parse_u8(chunks[1])) THEN Err(GenericError("byte 0", chunks[1]))
        ELSE IF ~InBounds(chunks, 1) THEN Panic
        ELSE IF IsErr(parse_u8(chunks[2])) THEN Err(GenericError("byte 1", chunks[2]))
        ELSE IF ~InBounds(chunks, 2) THEN Panic
        ELSE IF IsErr(parse_u8(chunks[3])) THEN Err(GenericError("byte 2", chunks[3]))
        ELSE IF ~InBounds(chunks, 3) THEN Panic
        ELSE IF IsErr(parse_u8(chunks[4])) THEN Err(GenericError("byte 3", chunks[4]))
        ELSE Ok(SubnetMask_new(parse_u8(chunks[1]).val, parse_u8(chunks[2]).val,
                               parse_u8(chunks[3]).val, parse_u8(chunks[4]).val))

SubnetMask_from_str(netmask) == SubnetMask_from_string(netmask)

SubnetMask_to_string(self) ==
    fmt_u8(self.b0) \o <<".">> \o fmt_u8(self.b1) \o <<".">> \o fmt_u8(self.b2)
        \o <<".">> \o fmt_u8(self.b3)

(***************************************************************************)
(* IPAddress::calculate_subnet                                             *)
(***************************************************************************)
calculate_subnet(self) ==
    LET netmask == SubnetMask_from_cidr(self.cidr)
    IN  IF IsErr(netmask) THEN Err(netmask.err)
        ELSE IF ~IsOk(netmask) THEN Panic
        ELSE Ok([self EXCEPT !.b0 = BitAnd(self.b0, netmask.val.b0, 8),
                             !.b1 = BitAnd(self.b1, netmask.val.b1, 8),
                             !.b2 = BitAnd(self.b2, netmask.val.b2, 8),
                             !.b3 = BitAnd(self.b3, netmask.val.b3, 8)])

\* b0.count_ones() + b1.count_ones() + b2.count_ones() + b3.count_ones()
RECURSIVE count_ones(_)
count_ones(b) == IF b = 0 THEN 0 ELSE (b % 2) + count_ones(b \div 2)

count_set_bits(b0, b1, b2, b3) ==
    count_ones(b0) + count_ones(b1) + count_ones(b2) + count_ones(b3)

(***************************************************************************)
(* The checked inputs                                                      *)
(***************************************************************************)
Seps == {".", "/"}

\* Texts for the four address bytes.  Every position has a plain numeral and
\* a text that is no u8; between them the positions cover numerals of one,
\* two and three digits, the ends of the u8 range, a signed and a zero-padded
\* numeral, a numeral with a letter, a numeral past u8 and the empty text.
Byte0Toks == {<<"1", "9", "2">>, <<"+", "1">>, <<"2", "5", "6">>}

Byte1Toks == {<<"1", "6", "8">>, <<"0">>, <<"i", "6", "8">>}

Byte2Toks == {<<"1">>, <<"0", "1">>, <<>>}

Byte3Toks == {<<"2">>, <<"2", "5", "5">>, <<"-", "2">>}

\* Texts for the CIDR value: the ends of the range, the first value past
\* MAX_CIDR, the sentinel, a numeral past u8, the empty text and a signed
\* numeral.
CidrToks ==
    {<<"0">>, <<"2", "4">>, <<"3", "2">>, <<"3", "3">>, <<"2", "5", "0">>,
     <<"2", "5", "6">>, <<>>, <<"+", "8">>}

\* What may follow the CIDR value: a separator and one more token.
ExtraToks == {<<".", "7">>, <<"/", "x">>}

\* The texts of exactly n tokens.
RECURSIVE Texts(_)
Texts(n) ==
    IF n = 1 THEN Byte0Toks
    ELSE IF n = 2 THEN {t \o <<sep>> \o x : t \in Texts(1), sep \in Seps, x \in Byte1Toks}
    ELSE IF n = 3 THEN {t \o <<sep>> \o x : t \in Texts(2), sep \in Seps, x \in Byte2Toks}
    ELSE IF n = 4 THEN {t \o <<sep>> \o x : t \in Texts(3), sep \in Seps, x \in Byte3Toks}
    ELSE IF n = 5 THEN {t \o <<sep>> \o x : t \in Texts(4), sep \in Seps, x \in CidrToks}
    ELSE {t \o x : t \in Texts(n - 1), x \in ExtraToks}

\* Byte values of directly constructed addresses and masks: no bit, every
\* bit, and the two alternating patterns 01010101 and 10101010.
Octets == {0, 85, 170, 255}

\* The bytes of directly constructed addresses: every combination of Octets
\* and the addresses of the crate's tests.
Addrs ==
    {<<b0, b1, b2, b3>> : b0 \in Octets, b1 \in Octets, b2 \in Octets, b3 \in Octets}
        \cup {<<192, 168, 1, 2>>, <<192, 168, 1, 243>>}

\* The text of the crate's tests.
SampleText == <<"1", "9", "2", ".", "1", "6", "8", ".", "1", ".", "2", "/", "2", "4">>

(***************************************************************************)
(* State: the text handed to the parsers, the address the caller holds,    *)
(* and the last call with its argument and result.                         *)
(***************************************************************************)
None == [some |-> FALSE]

Some(v) == [some |-> TRUE, v |-> v]

NoCall == [op |-> "none"]

Call(op, arg, r) == [op |-> op, arg |-> arg, r |-> r]

ResultOps ==
    {"IPAddress::from_string", "IPAddress::from_str", "IPAddress::calculate_subnet",
     "SubnetMask::from_string", "SubnetMask::from_str", "SubnetMask::from_cidr"}

\* A panic ends the calling thread: no further call follows it.
Panicked == res.op \in ResultOps /\ res.r = Panic

IPFromString ==
    /\ res = NoCall
    /\ LET r == IPAddress_from_string(text)
       IN  /\ res' = Call("IPAddress::from_string", text, r)
           /\ ip' = IF IsOk(r) THEN Some(r.val) ELSE ip
    /\ UNCHANGED text

IPFromStr ==
    /\ res = NoCall
    /\ LET r == IPAddress_from_str(text)
       IN  /\ res' = Call("IPAddress::from_str", text, r)
           /\ ip' = IF IsOk(r) THEN Some(r.val) ELSE ip
    /\ UNCHANGED text

MaskFromString ==
    /\ res = NoCall
    /\ res' = Call("SubnetMask::from_string", text, SubnetMask_from_string(text))
    /\ UNCHANGED <<text, ip>>

MaskFromStr ==
    /\ res = NoCall
    /\ res' = Call("SubnetMask::from_str", text, SubnetMask_from_str(text))
    /\ UNCHANGED <<text, ip>>

New(b0, b1, b2, b3, cidr) ==
    /\ ip' = Some(IPAddress_new(b0, b1, b2, b3, cidr))
    /\ res' = Call("IPAddress::new", <<b0, b1, b2, b3, cidr>>, ip'.v)
    /\ UNCHANGED text

NewWithoutCidr(b0, b1, b2, b3) ==
    /\ ip' = Some(IPAddress_new_without_cidr(b0, b1, b2, b3))
    /\ res' = Call("IPAddress::new_without_cidr", <<b0, b1, b2, b3>>, ip'.v)
    /\ UNCHANGED text

ToString ==
    /\ ~Panicked
    /\ ip.some
    /\ res' = Call("IPAddress::to_string", ip.v, IPAddress_to_string(ip.v))
    /\ UNCHANGED <<text, ip>>

CalculateSubnet ==
    /\ ~Panicked
    /\ ip.some
    /\ res' = Call("IPAddress::calculate_subnet", ip.v, calculate_subnet(ip.v))
    /\ UNCHANGED <<text, ip>>

FromCidr(cidr) ==
    /\ res' = Call("SubnetMask::from_cidr", cidr, SubnetMask_from_cidr(cidr))
    /\ UNCHANGED <<text, ip>>

MaskNew(b0, b1, b2, b3) ==
    /\ res' = Call("SubnetMask::new", <<b0, b1, b2, b3>>, Ok(SubnetMask_new(b0, b1, b2, b3)))
    /\ UNCHANGED <<text, ip>>

MaskToString ==
    /\ res.op \in {"SubnetMask::from_cidr", "SubnetMask::new"}
    /\ IsOk(res.r)
    /\ res' = Call("SubnetMask::to_string", res.r.val, SubnetMask_to_string(res.r.val))
    /\ UNCHANGED <<text, ip>>

CountSetBits ==
    /\ res.op \in {"SubnetMask::from_cidr", "SubnetMask::new"}
    /\ IsOk(res.r)
    /\ LET m == res.r.val
       IN  res' = Call("count_set_bits", m, count_set_bits(m.b0, m.b1, m.b2, m.b3))
    /\ UNCHANGED <<text, ip>>

(***************************************************************************)
(* Spec: a text is parsed as an address and as a mask; a parsed address is *)
(* formatted and its subnet calculated.                                    *)
(***************************************************************************)
Init ==
    /\ \E n \in 1 .. MaxTokens : text \in Texts(n)
    /\ ip = None
    /\ res = NoCall

Next ==
    \/ IPFromString
    \/ IPFromStr
    \/ MaskFromString
    \/ MaskFromStr
    \/ ToString
    \/ CalculateSubnet

Spec == Init /\ [][Next]_vars

(***************************************************************************)
(* SpecAddr: one address, built by a constructor or parsed from the sample *)
(* text, is formatted and its subnet calculated.                           *)
(***************************************************************************)
InitAddr ==
    /\ text = SampleText
    /\ ip = None
    /\ res = NoCall

NextAddr ==
    \/ ip = None /\ \E a \in Addrs, cidr \in U8 : New(a[1], a[2], a[3], a[4], cidr)
    \/ ip = None /\ \E a \in Addrs : NewWithoutCidr(a[1], a[2], a[3], a[4])
    \/ IPFromString
    \/ IPFromStr
    \/ ToString
    \/ CalculateSubnet

SpecAddr == InitAddr /\ [][NextAddr]_vars

(***************************************************************************)
(* SpecMask: masks derived from a CIDR value or built directly.            *)
(***************************************************************************)
InitMask ==
    /\ text = <<>>
    /\ ip = None
    /\ res = NoCall

NextMask ==
    \/ res = NoCall /\ \E cidr \in U8 : FromCidr(cidr)
    \/ res = NoCall /\ \E b0, b1, b2, b3 \in Octets : MaskNew(b0, b1, b2, b3)
    \/ MaskToString
    \/ CountSetBits

SpecMask == InitMask /\ [][NextMask]_vars

(***************************************************************************)
(* Vocabulary of the properties.  These definitions state what the code is *)
(* expected to compute and use none of its arithmetic.                     *)
(***************************************************************************)
ParseOps == {"IPAddress::from_string", "IPAddress::from_str"}

MaskParseOps == {"SubnetMask::from_string", "SubnetMask::from_str"}

\* Bit j (0 the lowest) of the byte b.
BitOf(b, j) == (b \div Pow2(j)) % 2

\* The byte of a mask or address that holds bit k of its 32-bit value.
ByteOf(m, k) ==
    IF k >= 24 THEN m.b0 ELSE IF k >= 16 THEN m.b1 ELSE IF k >= 8 THEN m.b2 ELSE m.b3

\* Bit k (0 the lowest) of b0 * 2^24 + b1 * 2^16 + b2 * 2^8 + b3.
Bit32(m, k) == BitOf(ByteOf(m, k), k % 8)

\* The decimal numeral of a u8, without padding.
Numeral(n) ==
    IF n < 10 THEN <<Digits[n + 1]>>
    ELSE IF n < 100 THEN <<Digits[(n \div 10) + 1], Digits[(n % 10) + 1]>>
    ELSE <<Digits[(n \div 100) + 1], Digits[((n \div 10) % 10) + 1], Digits[(n % 10) + 1]>>

\* tok is the decimal numeral, without leading zero, of a number in 0 .. max.
IsNumeralUpTo(tok, max) ==
    /\ Len(tok) \in 1 .. 3
    /\ \A i \in 1 .. Len(tok) : IsDigit(tok[i])
    /\ \E n \in 0 .. max : tok = Numeral(n)

\* s is "a.b.c.d", or "a.b.c.d/n", of numerals a, b, c, d in 0..255 and n in 0..32.
IsDotted(s) ==
    LET byDot == split(s, {"."})
    IN  /\ Len(byDot) = 4
        /\ \A i \in 1 .. 3 : IsNumeralUpTo(byDot[i], 255)
        /\ LET last == split(byDot[4], {"/"})
           IN  /\ Len(last) \in {1, 2}
               /\ IsNumeralUpTo(last[1], 255)
               /\ Len(last) = 2 => IsNumeralUpTo(last[2], MAX_CIDR)

ByteName == <<"byte 0", "byte 1", "byte 2", "byte 3">>

\* The tokens of s as the address parser sees them.
Tokens(s) == split(s, Seps)

\* The positions (1-based) among the first four whose token is no u8.
BadBytes(chunks) == {i \in 1 .. 4 : i <= Len(chunks) /\ IsErr(parse_u8(chunks[i]))}

Lowest(S) == CHOOSE i \in S : \A j \in S : i <= j

\* s up to the end of its fifth token.
RECURSIVE prefix_of_tokens(_, _, _)
prefix_of_tokens(s, i, n) ==
    IF i > Len(s) THEN s
    ELSE IF s[i] \in Seps
    THEN (IF n = 1 THEN SubSeq(s, 1, i - 1) ELSE prefix_of_tokens(s, i + 1, n - 1))
    ELSE prefix_of_tokens(s, i + 1, n)

FirstFive(s) == prefix_of_tokens(s, 1, 5)

(***************************************************************************)
(* C1: for every cidr in 0..=32, SubnetMask::from_cidr(cidr) succeeds and  *)
(* bit k of the 32-bit value of the mask is 1 exactly for the cidr highest *)
(* bits (k >= 32 - cidr); cidr 0 gives 0.0.0.0, 24 gives 255.255.255.0 and *)
(* 32 gives 255.255.255.255, without a panic on the empty range or at      *)
(* shift 31.                                                               *)
(***************************************************************************)
C1_FromCidrMask ==
    (res.op = "SubnetMask::from_cidr" /\ res.arg \in 0 .. MAX_CIDR) =>
        /\ res.r.tag = "Ok"
        /\ \A k \in 0 .. 31 : Bit32(res.r.val, k) = (IF k >= 32 - res.arg THEN 1 ELSE 0)
        /\ res.arg = 0 => res.r.val = [b0 |-> 0, b1 |-> 0, b2 |-> 0, b3 |-> 0]
        /\ res.arg = 24 => res.r.val = [b0 |-> 255, b1 |-> 255, b2 |-> 255, b3 |-> 0]
        /\ res.arg = 32 => res.r.val = [b0 |-> 255, b1 |-> 255, b2 |-> 255, b3 |-> 255]

\* from_cidr(32) has run its loop up to shift 31 and returned the full mask.
C1_Witness ==
    /\ res.op = "SubnetMask::from_cidr"
    /\ res.arg = 32
    /\ res.r = [tag |-> "Ok", val |-> [b0 |-> 255, b1 |-> 255, b2 |-> 255, b3 |-> 255]]

(***************************************************************************)
(* C2: IPAddress parsing never aborts: for every input of fewer than 4     *)
(* tokens, from_string returns Err(GenericError) whose position is         *)
(* "byte N" for the first missing or unparsable token position N.          *)
(***************************************************************************)
C2_ShortInputIsError ==
    (res.op \in ParseOps /\ Len(Tokens(text)) < 4) =>
        LET chunks == Tokens(text)
            N == IF BadBytes(chunks) # {} THEN Lowest(BadBytes(chunks)) ELSE Len(chunks) + 1
        IN  /\ res.r.tag = "Err"
            /\ res.r.err.kind = "GenericError"
            /\ res.r.err.position = ByteName[N]

(***************************************************************************)
(* C3: for every input of at least 4 tokens, if a token among positions    *)
(* 0..3 is no u8 the result is GenericError{"byte N", token N} for the     *)
(* smallest such N, whatever the later tokens; otherwise a fifth token     *)
(* that is no u8 gives GenericError{"CIDR value"}, and one that parses to  *)
(* a value above MAX_CIDR gives ParseError::MaxCidrExceeded{value}.        *)
(***************************************************************************)
C3_FirstFailureWins ==
    (res.op \in ParseOps /\ Len(Tokens(text)) >= 4) =>
        LET chunks == Tokens(text)
            bad == BadBytes(chunks)
        IN  /\ bad # {} =>
                res.r = [tag |-> "Err",
                         err |-> [kind |-> "GenericError",
                                  position |-> ByteName[Lowest(bad)],
                                  value |-> chunks[Lowest(bad)]]]
            /\ (bad = {} /\ Len(chunks) >= 5 /\ IsErr(parse_u8(chunks[5]))) =>
                res.r = [tag |-> "Err",
                         err |-> [kind |-> "GenericError",
                                  position |-> "CIDR value",
                                  value |-> chunks[5]]]
            /\ (bad = {} /\ Len(chunks) >= 5 /\ IsOk(parse_u8(chunks[5]))
                    /\ parse_u8(chunks[5]).val > MAX_CIDR) =>
                res.r = [tag |-> "Err",
                         err |-> [kind |-> "ParseError::MaxCidrExceeded",
                                  value |-> parse_u8(chunks[5]).val]]

\* "192.i68.1.2/24" was parsed and failed naming byte 1.
C3_Witness ==
    /\ res.op = "IPAddress::from_string"
    /\ text = <<"1", "9", "2", ".", "i", "6", "8", ".", "1", ".", "2", "/", "2", "4">>
    /\ res.r.tag = "Err"
    /\ res.r.err.position = "byte 1"

(***************************************************************************)
(* C4: round trip: for numerals a, b, c, d of 0..=255 without leading      *)
(* zeros, from_string("a.b.c.d") succeeds and to_string of the result is   *)
(* the same text; likewise "a.b.c.d/n" for n in 0..=32.                    *)
(***************************************************************************)
C4_RoundTrip ==
    (res.op \in ParseOps \cup {"IPAddress::to_string"} /\ IsDotted(text)) =>
        /\ res.op \in ParseOps =>
               /\ res.r.tag = "Ok"
               /\ ip = Some(res.r.val)
               /\ IPAddress_to_string(res.r.val) = text
        /\ res.op = "IPAddress::to_string" => res.r = text

\* "192.168.1.2/24" was parsed and the parsed address formatted back.
C4_Witness ==
    /\ res.op = "IPAddress::to_string"
    /\ text = SampleText
    /\ res.arg = [b0 |-> 192, b1 |-> 168, b2 |-> 1, b3 |-> 2, cidr |-> 24]
    /\ res.r = SampleText

(***************************************************************************)
(* C5: calculate_subnet(a) returns Err(e) exactly when from_cidr(a.cidr)   *)
(* returns Err(e), the same NetmaskError and never CalculationError;       *)
(* otherwise Ok(r) with r.bi = a.bi AND mask.bi for each byte and          *)
(* r.cidr = a.cidr; the address a is left unmodified.                      *)
(***************************************************************************)
C5_CalculateSubnet ==
    res.op = "IPAddress::calculate_subnet" =>
        LET a == res.arg
            m == SubnetMask_from_cidr(a.cidr)
        IN  /\ ip = Some(a)
            /\ (res.r.tag = "Err") <=> (m.tag = "Err")
            /\ m.tag = "Err" =>
                   /\ res.r.err = m.err
                   /\ res.r.err.kind \in {"UndefinedCidr", "NetmaskError::MaxCidrExceeded"}
            /\ m.tag # "Err" =>
                   /\ res.r.tag = "Ok"
                   /\ res.r.val.cidr = a.cidr
                   /\ \A k \in 0 .. 31 :
                          Bit32(res.r.val, k) = Bit32(a, k) * Bit32(m.val, k)
            /\ (a = [b0 |-> 192, b1 |-> 168, b2 |-> 1, b3 |-> 2, cidr |-> 24]) =>
                   res.r = [tag |-> "Ok",
                            val |-> [b0 |-> 192, b1 |-> 168, b2 |-> 1, b3 |-> 0, cidr |-> 24]]

\* The subnet of 170.85.255.170/19 was calculated: the mask cuts a byte in two.
C5_Witness ==
    /\ res.op = "IPAddress::calculate_subnet"
    /\ res.arg = [b0 |-> 170, b1 |-> 85, b2 |-> 255, b3 |-> 170, cidr |-> 19]
    /\ res.r = [tag |-> "Ok",
                val |-> [b0 |-> 170, b1 |-> 85, b2 |-> 224, b3 |-> 0, cidr |-> 19]]
    /\ ip = Some(res.arg)

(***************************************************************************)
(* C6: from_cidr fails with UndefinedCidr when the input is UNDEF_CIDR,    *)
(* and with NetmaskError::MaxCidrExceeded{value: cidr} for every other     *)
(* input above MAX_CIDR; the sentinel is never reported as                 *)
(* MaxCidrExceeded, and no mask is produced in either case.                *)
(***************************************************************************)
C6_FromCidrErrors ==
    res.op = "SubnetMask::from_cidr" =>
        /\ res.arg = UNDEF_CIDR => res.r = [tag |-> "Err", err |-> [kind |-> "UndefinedCidr"]]
        /\ (res.arg > MAX_CIDR /\ res.arg # UNDEF_CIDR) =>
               res.r = [tag |-> "Err",
                        err |-> [kind |-> "NetmaskError::MaxCidrExceeded", value |-> res.arg]]
        /\ res.arg = 33 =>
               res.r = [tag |-> "Err",
                        err |-> [kind |-> "NetmaskError::MaxCidrExceeded", value |-> 33]]

\* from_cidr was called with the sentinel and failed.
C6_Witness ==
    /\ res.op = "SubnetMask::from_cidr"
    /\ res.arg = UNDEF_CIDR
    /\ res.r.tag = "Err"

(***************************************************************************)
(* C7: an address returned by a successful from_string / from_str has a    *)
(* cidr that is UNDEF_CIDR exactly when the input has no fifth token, and  *)
(* is otherwise the parsed fifth token, in 0..=32; so a numeral never      *)
(* yields the sentinel, and calculate_subnet on a parsed address fails     *)
(* only with UndefinedCidr.                                                *)
(***************************************************************************)
C7_ParsedCidrInRange ==
    /\ (res.op \in ParseOps /\ res.r.tag = "Ok") =>
           LET chunks == Tokens(text)
               cidr == res.r.val.cidr
           IN  /\ cidr = UNDEF_CIDR \/ cidr <= MAX_CIDR
               /\ (cidr = UNDEF_CIDR) <=> (Len(chunks) < 5)
               /\ Len(chunks) >= 5 =>
                      /\ parse_u8(chunks[5]) = [tag |-> "Ok", val |-> cidr]
                      /\ cidr \in 0 .. MAX_CIDR
    /\ (res.op \in ParseOps /\ Len(Tokens(text)) >= 5
            /\ Tokens(text)[5] = Numeral(UNDEF_CIDR)) => res.r.tag # "Ok"
    /\ (res.op = "IPAddress::calculate_subnet" /\ res.r.tag # "Ok") =>
           res.r = [tag |-> "Err", err |-> [kind |-> "UndefinedCidr"]]

\* An address parsed from a text without CIDR value failed to give a subnet.
C7_Witness ==
    /\ res.op = "IPAddress::calculate_subnet"
    /\ Len(Tokens(text)) = 4
    /\ ip.some
    /\ ip.v.cidr = UNDEF_CIDR
    /\ res.r.tag = "Err"

(***************************************************************************)
(* C8: to_string returns "b0.b1.b2.b3" when cidr is UNDEF_CIDR and         *)
(* "b0.b1.b2.b3/cidr" for every other cidr, each field in base 10 without  *)
(* leading zeros or padding, whichever way the address was constructed.    *)
(***************************************************************************)
C8_ToStringFormat ==
    res.op = "IPAddress::to_string" =>
        LET a == res.arg
            dotted == Numeral(a.b0) \o <<".">> \o Numeral(a.b1) \o <<".">>
                          \o Numeral(a.b2) \o <<".">> \o Numeral(a.b3)
        IN  /\ ip = Some(a)
            /\ a.cidr = UNDEF_CIDR => res.r = dotted
            /\ a.cidr # UNDEF_CIDR => res.r = dotted \o <<"/">> \o Numeral(a.cidr)

\* 192.168.1.243 built by new_without_cidr was formatted without a slash.
C8_Witness ==
    /\ res.op = "IPAddress::to_string"
    /\ res.arg = [b0 |-> 192, b1 |-> 168, b2 |-> 1, b3 |-> 243, cidr |-> UNDEF_CIDR]
    /\ res.r = <<"1", "9", "2", ".", "1", "6", "8", ".", "1", ".", "2", "4", "3">>

(***************************************************************************)
(* C9: SubnetMask::from_string splits on '.' only: if the four tokens at   *)
(* positions 0..3 all parse as u8 it returns the mask of those bytes,      *)
(* otherwise GenericError{"byte N", token N} for the smallest failing N;   *)
(* '/' is no separator and MaxCidrExceeded is never produced.              *)
(***************************************************************************)
C9_MaskFromString ==
    res.op \in MaskParseOps =>
        LET chunks == split(text, {"."})
            bad == BadBytes(chunks)
            N == IF bad # {} THEN Lowest(bad) ELSE Len(chunks) + 1
        IN  IF Len(chunks) >= 4 /\ bad = {}
            THEN res.r = [tag |-> "Ok",
                          val |-> [b0 |-> parse_u8(chunks[1]).val, b1 |-> parse_u8(chunks[2]).val,
                                   b2 |-> parse_u8(chunks[3]).val, b3 |-> parse_u8(chunks[4]).val]]
            ELSE /\ res.r.tag = "Err"
                 /\ res.r.err.kind = "GenericError"
                 /\ res.r.err.position = ByteName[N]
                 /\ N <= Len(chunks) => res.r.err.value = chunks[N]

(***************************************************************************)
(* C10: the result of IPAddress::from_string is determined by the first    *)
(* five tokens: tokens after the fifth, valid or not, change neither the   *)
(* Ok value nor the Err value.                                             *)
(***************************************************************************)
C10_TokensBeyondFifthIgnored ==
    (res.op \in ParseOps /\ Len(Tokens(text)) >= 5) =>
        res.r = IPAddress_from_string(FirstFive(text))

\* A text whose sixth token is no number was parsed into an address.
C10_Witness ==
    /\ res.op = "IPAddress::from_string"
    /\ Len(Tokens(text)) >= 6
    /\ Tokens(text)[6] = <<"x">>
    /\ res.r.tag = "Ok"
    /\ res.r.val.cidr = 24

====
